---- MODULE Spec2Model ----
(***************************************************************************)
(* simply-finance: the authentication layer, the expense handlers and the  *)
(* relational store (users, categories, income, expenses, balances) with   *)
(* its foreign keys, as a state machine over the stored rows.              *)
(*                                                                         *)
(* Money is kept in integers: request amounts in thousandths (milli), the  *)
(* DECIMAL(10,2) columns in hundredths (cents).  JavaScript's undefined,   *)
(* null, 0, NaN and "" are told apart only where the code tells them       *)
(* apart.                                                                  *)
(***************************************************************************)
EXTENDS Integers, Sequences, FiniteSets, TLC

(***************************************************************************)
(* Bounds of the model: how many ids each AUTO_INCREMENT column hands out  *)
(* and how many successful writes a behaviour holds.                       *)
(***************************************************************************)
MaxUsers == 2

MaxCategories == 2

MaxExpenses == 2

MaxIncome == 1

MaxBalances == 1

MaxOps == 4

VARIABLES users, categories, income, expenses, balances, nextId, ops,
          listing, requests, connection, db, sockets, calls

\* The tables, their AUTO_INCREMENT counters and the count of writes.
store == <<users, categories, income, expenses, balances, nextId, ops>>

\* A listing over many stored rows, the requests in flight between two of
\* their queries, and the state of server/db/index.ts.
others == <<listing, requests, connection, db, sockets, calls>>

vars == <<users, categories, income, expenses, balances, nextId, ops,
          listing, requests, connection, db, sockets, calls>>

(***************************************************************************)
(* Request values                                                          *)
(***************************************************************************)

\* Strings whose characters matter (emails, passwords) are sequences of
\* one-character strings; "" and undefined are both the empty sequence,
\* which is what `!body.email` cannot tell apart either.
EmailA == <<"a", "@", "x", ".", "c">>

EmailB == <<"b", "@", "x", ".", "c">>

EmailNoTld == <<"a", "@", "x">>

Emails == {EmailA, EmailB}

EmailInputs == Emails \cup {EmailNoTld, <<>>}

PasswordGood == <<"s", "e", "c", "r", "e", "t">>

PasswordOther == <<"h", "u", "n", "t", "e", "r", "2">>

PasswordShort == <<"a", "b", "c">>

PasswordInputs == {PasswordGood, PasswordOther, PasswordShort, <<>>}

NameInputs == {<<"A", "n", "n">>, <<>>}

\* A JSON value of a body field, as far as Number() and the handlers'
\* tests read it: t is the JavaScript type, n the number in thousandths
\* (or the boolean as 0/1), s the string.
Undefined == [t |-> "undefined", n |-> 0, s |-> ""]

JsNum(m) == [t |-> "number", n |-> m, s |-> ""]

JsStr(str) == [t |-> "string", n |-> 0, s |-> str]

JsBool(b) == [t |-> "boolean", n |-> b, s |-> ""]

JsInfinity == [t |-> "infinity", n |-> 0, s |-> ""]

AmountInputs ==
    { Undefined, JsStr("abc"), JsStr("1.004"), JsBool(1),
      JsNum(0), JsNum(-1000), JsNum(4), JsInfinity }

DateInputs == {"", "not-a-date", "2024-01-01", "2024-01-05"}

NaN == [nan |-> TRUE, inf |-> FALSE, milli |-> 0]

Finite(m) == [nan |-> FALSE, inf |-> FALSE, milli |-> m]

\* The decimal strings of the request domain, read as Number() reads them.
StringToNumber(str) ==
    CASE str = "" -> Finite(0)
      [] str = "1.004" -> Finite(1004)
      [] str = "0" -> Finite(0)
      [] str = "1" -> Finite(1000)
      [] str = "2" -> Finite(2000)
      [] str = "50" -> Finite(50000)
      [] str = "100" -> Finite(100000)
      [] str = "101" -> Finite(101000)
      [] str = "150" -> Finite(150000)
      [] str = "-2" -> Finite(-2000)
      [] OTHER -> NaN

\* Number(v)
Number(v) ==
    CASE v.t = "undefined" -> NaN
      [] v.t = "number" -> Finite(v.n)
      [] v.t = "boolean" -> Finite(v.n * 1000)
      [] v.t = "infinity" -> [nan |-> FALSE, inf |-> TRUE, milli |-> 0]
      [] OTHER -> StringToNumber(v.s)

\* new Date(s).getTime(): the day number, or 0 for an Invalid Date (NaN).
ParseDate(str) ==
    CASE str = "2024-01-01" -> 1
      [] str = "2024-01-05" -> 5
      [] OTHER -> 0

(***************************************************************************)
(* server/utils/security: password hashing and bearer tokens               *)
(***************************************************************************)

\* A salted one-way hash: a value no request carries, a function of the
\* password alone only as far as comparePassword can tell.
hashPassword(password) == <<"$2b$">> \o password

comparePassword(password, hash) == hash = hashPassword(password)

\* A signed token embeds the user identifier; a token not signed with the
\* process-wide secret does not verify.
generateToken(userId) == [userId |-> userId, sig |-> "secret"]

ForgedToken(userId) == [userId |-> userId, sig |-> "forged"]

\* verifyToken(token): the decoded payload's userId, or 0 for null.
verifyToken(token) == IF token.sig = "secret" THEN token.userId ELSE 0

UserIds == 1..MaxUsers

\* The tokens the server has signed so far: one names every id the users
\* table has handed out, and stays valid when that user is deleted.
IssuedTokens == {generateToken(u) : u \in 1..(nextId.users - 1)}

NoHeader == [scheme |-> "", token |-> ForgedToken(0)]

Bearer(token) == [scheme |-> "Bearer ", token |-> token]

\* The Authorization headers a request may carry: none, a token the
\* server did not sign, a token it signed.
AuthHeaders ==
    {NoHeader, Bearer(ForgedToken(1))} \cup {Bearer(t) : t \in IssuedTokens}

\* The x-user-id headers of the request domain; 0 is no such header.
XUserIdHeaders == {0} \cup UserIds

(***************************************************************************)
(* server/middleware/auth.ts                                               *)
(***************************************************************************)

\* AuthMiddlewareContext answering 401 itself when no identity resolves.
AuthMiddlewareRejecting(authHeader) ==
    IF authHeader.scheme = "Bearer " /\ verifyToken(authHeader.token) # 0
    THEN [responded |-> FALSE, userId |-> verifyToken(authHeader.token),
          user |-> verifyToken(authHeader.token)]
    ELSE [responded |-> TRUE, userId |-> 0, user |-> 0]

\* The middleware: whether it answered the request itself (it returns
\* nothing, so never), and event.context.userId and event.context.user.id
\* afterwards, 0 for a context left without them.
AuthMiddlewareContext(authHeader) ==
    IF authHeader.scheme = "Bearer " /\ verifyToken(authHeader.token) # 0
    THEN [responded |-> FALSE, userId |-> verifyToken(authHeader.token),
          user |-> verifyToken(authHeader.token)]
    ELSE [responded |-> FALSE, userId |-> 0, user |-> 0]

\* event.context.userId after the middleware ran: the token's userId, or 0
\* when the context was left without identity.
AuthMiddleware(authHeader) == AuthMiddlewareContext(authHeader).userId

(***************************************************************************)
(* Responses                                                               *)
(***************************************************************************)

NoData == <<>>

Error(status, message) == [status |-> status, error |-> message, data |-> NoData]

Ok(status, data) == [status |-> status, error |-> "", data |-> data]

\* A select of some columns of a row.
Columns(row, cols) == [c \in cols |-> row[c]]

(***************************************************************************)
(* server/db/schema.ts: the tables' constraints                            *)
(***************************************************************************)

UserById(id) == {u \in users : u.id = id}

UserByEmail(email) == {u \in users : u.email = email}

CategoryById(id) == {c \in categories : c.id = id}

\* users.email is UNIQUE: the insert of a second row with the email fails.
UsersInsertFails(email) == UserByEmail(email) # {}

UsersInsertRow(email, name, password) ==
    [id |-> nextId.users, email |-> email, name |-> name, password |-> password]

\* MoneyRowFkFails with the key on user_id alone.
MoneyRowFkFailsUserOnly(userId, categoryId) == UserById(userId) = {}

\* The foreign keys of an expenses / income row.
MoneyRowFkFails(userId, categoryId) ==
    UserById(userId) = {} \/ CategoryById(categoryId) = {}

\* amount DECIMAL(10,2): the exact value is rounded half away from zero to
\* hundredths.
DecimalRound(milli) ==
    IF milli >= 0 THEN (milli + 5) \div 10 ELSE -((-milli + 5) \div 10)

(***************************************************************************)
(* server/api/auth: register, login, me                                    *)
(***************************************************************************)

EmailChar(ch) == ch # " " /\ ch # "@"

\* EmailRegexTest for /^[^\s@]+@[^\s@]+$/, without the dot.
EmailRegexTestNoDot(email) ==
    \E i \in 1..Len(email) :
        /\ 1 < i /\ i < Len(email)
        /\ email[i] = "@"
        /\ \A k \in 1..Len(email) : (k # i) => EmailChar(email[k])

\* /^[^\s@]+@[^\s@]+\.[^\s@]+$/.test(email)
EmailRegexTest(email) ==
    \E i \in 1..Len(email) : \E j \in 1..Len(email) :
        /\ 1 < i /\ i + 1 < j /\ j < Len(email)
        /\ email[i] = "@" /\ email[j] = "."
        /\ \A k \in 1..Len(email) : (k # i) => EmailChar(email[k])

RegisterBodies == [email : EmailInputs, password : PasswordInputs, name : NameInputs]

\* RegisterStatus without the lookup of the email: the insert's unique
\* key is all that stops a second user.
RegisterStatusNoLookup(body) ==
    IF body.email = <<>> \/ body.password = <<>> \/ body.name = <<>> THEN 400
    ELSE IF ~EmailRegexTest(body.email) THEN 400
    ELSE IF Len(body.password) < 6 THEN 400
    ELSE IF UsersInsertFails(body.email) THEN 500
    ELSE 200

\* The register handler: the response and the users table afterwards.
RegisterStatus(body) ==
    IF body.email = <<>> \/ body.password = <<>> \/ body.name = <<>> THEN 400
    ELSE IF ~EmailRegexTest(body.email) THEN 400
    ELSE IF Len(body.password) < 6 THEN 400
    ELSE IF UserByEmail(body.email) # {} THEN 409
    ELSE IF UsersInsertFails(body.email) THEN 500
    ELSE 200

RegisterResponse(body) ==
    LET st == RegisterStatus(body) IN
    IF st = 200
    THEN Ok(200, [token |-> generateToken(nextId.users),
                  user |-> [id |-> nextId.users, email |-> body.email,
                            name |-> body.name]])
    ELSE Error(st,
            CASE st = 409 -> "User already exists"
              [] st = 500 -> "Failed to register user"
              [] body.email = <<>> \/ body.password = <<>> \/ body.name = <<>>
                     -> "Email, password, and name are required"
              [] ~EmailRegexTest(body.email) -> "Invalid email format"
              [] OTHER -> "Password must be at least 6 characters")

RegisterUsers(body) ==
    IF RegisterStatus(body) = 200
    THEN users \cup {UsersInsertRow(body.email, body.name,
                                    hashPassword(body.password))}
    ELSE users

LoginBodies == [email : EmailInputs, password : PasswordInputs]

LoginUserColumns == {"id", "email", "name"}

\* LoginHandler with an answer of its own for an email no user has.
LoginHandlerRevealing(table, body) ==
    IF body.email = <<>> \/ body.password = <<>>
    THEN Error(400, "Email and password are required")
    ELSE IF {u \in table : u.email = body.email} = {}
    THEN Error(404, "User not found")
    ELSE LET user == CHOOSE u \in table : u.email = body.email IN
         IF ~comparePassword(body.password, user.password)
         THEN Error(401, "Invalid credentials")
         ELSE Ok(200, [token |-> generateToken(user.id),
                       user |-> Columns(user, LoginUserColumns)])

\* The login handler over a users table; it writes nothing.
LoginHandler(table, body) ==
    IF body.email = <<>> \/ body.password = <<>>
    THEN Error(400, "Email and password are required")
    ELSE IF {u \in table : u.email = body.email} = {}
    THEN Error(401, "Invalid credentials")
    ELSE LET user == CHOOSE u \in table : u.email = body.email IN
         IF ~comparePassword(body.password, user.password)
         THEN Error(401, "Invalid credentials")
         ELSE Ok(200, [token |-> generateToken(user.id),
                       user |-> Columns(user, LoginUserColumns)])

LoginResponse(body) == LoginHandler(users, body)

MeUserColumns == {"id", "email", "name"}

\* The me handler answering a missing user as it answers a missing identity.
MeResponseMissingUnauthorized(authHeader) ==
    LET userId == AuthMiddleware(authHeader) IN
    IF userId = 0 \/ UserById(userId) = {} THEN Error(401, "Unauthorized")
    ELSE Ok(200, [user |-> Columns(CHOOSE u \in UserById(userId) : TRUE,
                                   MeUserColumns)])

\* The me handler.
MeResponse(authHeader) ==
    LET userId == AuthMiddleware(authHeader) IN
    IF userId = 0 THEN Error(401, "Unauthorized")
    ELSE IF UserById(userId) = {} THEN Error(404, "User not found")
    ELSE Ok(200, [user |-> Columns(CHOOSE u \in UserById(userId) : TRUE,
                                   MeUserColumns)])

(***************************************************************************)
(* server/api/expenses: the request domain                                 *)
(***************************************************************************)

\* A string field the body does not hold (undefined), and a NULL column.
NoField == "(undefined)"

Null == "(null)"

\* categoryId values of the request domain: 0 is a body or query without
\* the field; MaxCategories + 1 is the id of no category.
CategoryIdInputs == 0..(MaxCategories + 1)

\* :id values of the request domain: 0 is an id Number() makes 0 or NaN.
ExpenseIdInputs == 0..(MaxExpenses + 1)

ExpenseBodies ==
    [present : {TRUE}, categoryId : CategoryIdInputs, amount : AmountInputs,
     description : {NoField, "lunch"}, date : DateInputs]

\* A request without a body.
NoBody ==
    [present |-> FALSE, categoryId |-> 0, amount |-> Undefined,
     description |-> NoField, date |-> ""]

DefaultLimit == 50

MaxLimit == 100

\* limit and offset of the query string: -1 is a query without the field.
LimitInputs == {-1, 1, MaxLimit + 1}

OffsetInputs == {-1, 1}

ExpenseQueries ==
    [startDate : DateInputs, endDate : DateInputs,
     categoryId : 0..MaxCategories, limit : LimitInputs, offset : OffsetInputs]

Min(a, b) == IF a < b THEN a ELSE b

\* isNaN(numAmount) || numAmount <= 0
AmountRejected(num) == num.nan \/ (~num.inf /\ num.milli <= 0)

\* The amount column cannot take String(Infinity).
AmountStoreFails(num) == num.inf

(***************************************************************************)
(* server/api/expenses/[id].ts, first handler: PUT and DELETE /expenses/:id *)
(***************************************************************************)

\* const userId = event.context.userId || event.context.user?.id
\*                || (x-user-id header ? Number(header) : 0)
ExpenseIdUserId(authHeader, xUserId) ==
    IF AuthMiddleware(authHeader) # 0 THEN AuthMiddleware(authHeader)
    ELSE xUserId

\* ExistingRecord selecting by id alone.
ExistingRecordAnyOwner(id, userId) == {e \in expenses : e.id = id}

\* select ... where id = :id and user_id = :userId limit 1
ExistingRecord(id, userId) ==
    {e \in expenses : e.id = id /\ e.userId = userId}

\* NotFound with an answer of its own for a record of another user.
NotFoundOrForbidden(id, userId) ==
    IF \E e \in expenses : e.id = id
    THEN Error(403, "Forbidden")
    ELSE Error(404, "Expense record not found")

\* The answer when the select returned no row.
NotFound(id, userId) == Error(404, "Expense record not found")

\* Whether the handler gets as far as readBody.
ExpenseIdReadsBody(method, id, authHeader, xUserId) ==
    /\ method = "PUT"
    /\ id # 0
    /\ ExpenseIdUserId(authHeader, xUserId) # 0
    /\ ExistingRecord(id, ExpenseIdUserId(authHeader, xUserId)) # {}

\* updateData: the columns the body sets, with the values stored for them.
UpdateDataKeys(body) ==
    (IF body.categoryId # 0 THEN {"categoryId"} ELSE {})
    \cup (IF body.amount # Undefined THEN {"amount"} ELSE {})
    \cup (IF body.description # NoField THEN {"description"} ELSE {})
    \cup (IF body.date # "" THEN {"date"} ELSE {})

\* UpdatedRow setting all four columns from the body, absent or not.
UpdatedRowReplacing(row, body) ==
    [id |-> row.id,
     userId |-> row.userId,
     categoryId |-> IF body.categoryId # 0 THEN body.categoryId ELSE row.categoryId,
     amount |-> IF body.amount # Undefined
                THEN DecimalRound(Number(body.amount).milli) ELSE row.amount,
     description |-> IF body.description # NoField
                     THEN body.description ELSE Null,
     date |-> IF body.date # "" THEN ParseDate(body.date) ELSE row.date,
     createdAt |-> row.createdAt,
     updatedAt |-> ops + 1]

\* The row after `set updateData`: updated_at is ON UPDATE
\* CURRENT_TIMESTAMP, which moves when a column of the row changes.
UpdatedRow(row, body) ==
    LET set == [categoryId |-> IF body.categoryId # 0
                               THEN body.categoryId ELSE row.categoryId,
                amount |-> IF body.amount # Undefined
                           THEN DecimalRound(Number(body.amount).milli)
                           ELSE row.amount,
                description |-> IF body.description # NoField
                                THEN body.description ELSE row.description,
                date |-> IF body.date # "" THEN ParseDate(body.date)
                         ELSE row.date]
    IN [id |-> row.id,
        userId |-> row.userId,
        categoryId |-> set.categoryId,
        amount |-> set.amount,
        description |-> set.description,
        date |-> set.date,
        createdAt |-> row.createdAt,
        updatedAt |-> IF set = Columns(row, DOMAIN set)
                      THEN row.updatedAt ELSE ops + 1]

\* update expenses set ... where id = :id and user_id = :userId
UpdateExpenses(id, userId, body) ==
    {IF e.id = id /\ e.userId = userId THEN UpdatedRow(e, body) ELSE e :
        e \in expenses}

\* delete from expenses where id = :id and user_id = :userId
DeleteExpenses(id, userId) ==
    {e \in expenses : ~(e.id = id /\ e.userId = userId)}

\* UpdateFkFails for a column without the key.
UpdateFkUnchecked(body) == FALSE

\* The update fails on expenses.category_id's foreign key.
UpdateFkFails(body) ==
    body.categoryId # 0 /\ CategoryById(body.categoryId) = {}

Result(resp, rows) == [resp |-> resp, expenses |-> rows]

\* The handler: its response and the expenses table afterwards.
ExpenseIdHandler(method, id, authHeader, xUserId, body) ==
    LET userId == ExpenseIdUserId(authHeader, xUserId) IN
    IF id = 0 THEN Result(Error(400, "Invalid ID"), expenses)
    ELSE IF userId = 0
    THEN Result(Error(401, "User not authenticated"), expenses)
    ELSE IF ExistingRecord(id, userId) = {}
    THEN Result(NotFound(id, userId), expenses)
    ELSE IF method = "DELETE"
    THEN Result(Ok(200, <<[id |-> id]>>), DeleteExpenses(id, userId))
    ELSE IF ~body.present
    THEN Result(Error(400, "Request body is required"), expenses)
    ELSE IF body.amount # Undefined /\ AmountRejected(Number(body.amount))
    THEN Result(Error(400, "amount must be a positive number"), expenses)
    ELSE IF body.date # "" /\ ParseDate(body.date) = 0
    THEN Result(Error(400, "Invalid date format"), expenses)
    ELSE IF UpdateDataKeys(body) = {}
    THEN Result(Ok(200, <<CHOOSE e \in ExistingRecord(id, userId) : TRUE>>),
                expenses)
    ELSE IF body.amount # Undefined /\ AmountStoreFails(Number(body.amount))
    THEN Result(Error(500, "Failed to update expense record"), expenses)
    ELSE IF UpdateFkFails(body)
    THEN Result(Error(400, "Invalid categoryId: Category does not exist"),
                expenses)
    ELSE Result(Ok(200, <<UpdatedRow(CHOOSE e \in ExistingRecord(id, userId) : TRUE,
                                     body)>>),
                UpdateExpenses(id, userId, body))

(***************************************************************************)
(* server/api/expenses/[id].ts, second handler: GET and POST /expenses     *)
(***************************************************************************)

\* ExpenseMatches without the condition on user_id.
ExpenseMatchesAnyOwner(e, userId, query) ==
    /\ (ParseDate(query.startDate) # 0 => e.date >= ParseDate(query.startDate))
    /\ (ParseDate(query.endDate) # 0 => e.date <= ParseDate(query.endDate))
    /\ (query.categoryId # 0 => e.categoryId = query.categoryId)

\* and(...conditions) of the GET branch
ExpenseMatches(e, userId, query) ==
    /\ e.userId = userId
    /\ (ParseDate(query.startDate) # 0 => e.date >= ParseDate(query.startDate))
    /\ (ParseDate(query.endDate) # 0 => e.date <= ParseDate(query.endDate))
    /\ (query.categoryId # 0 => e.categoryId = query.categoryId)

QueryLimit(query) ==
    IF query.limit # -1 THEN Min(query.limit, MaxLimit) ELSE DefaultLimit

QueryOffset(query) == IF query.offset # -1 THEN query.offset ELSE 0

\* The orders `order by date desc` may return the rows in: rows of one
\* date come in any order.
DateDescOrders(rows) ==
    {s \in [1..Cardinality(rows) -> rows] :
        /\ \A i, j \in 1..Cardinality(rows) : (i # j) => s[i] # s[j]
        /\ \A i, j \in 1..Cardinality(rows) : (i < j) => s[i].date >= s[j].date}

PageIgnoringOffset(s, limit, offset) == SubSeq(s, 1, Min(Len(s), limit))

\* limit :limit offset :offset
Page(s, limit, offset) == SubSeq(s, offset + 1, Min(Len(s), offset + limit))

\* The data a GET may answer with.
GetExpensesData(userId, query) ==
    {Page(s, QueryLimit(query), QueryOffset(query)) :
        s \in DateDescOrders({e \in expenses : ExpenseMatches(e, userId, query)})}

\* The GET branch: the responses the handler may give.
GetExpensesResponses(authHeader, query) ==
    IF AuthMiddleware(authHeader) = 0 THEN {Error(401, "Unauthorized")}
    ELSE IF QueryLimit(query) < 0 \/ QueryOffset(query) < 0
    THEN {Error(500, "Failed to fetch expenses records")}
    ELSE {Ok(200, data) : data \in GetExpensesData(AuthMiddleware(authHeader), query)}

ExpensesInsertRow(userId, body) ==
    [id |-> nextId.expenses,
     userId |-> userId,
     categoryId |-> body.categoryId,
     amount |-> DecimalRound(Number(body.amount).milli),
     description |-> IF body.description = NoField THEN Null ELSE body.description,
     date |-> ParseDate(body.date),
     createdAt |-> ops + 1,
     updatedAt |-> ops + 1]

\* The POST branch: its response and the expenses table afterwards.
PostExpensesHandler(authHeader, body) ==
    LET userId == AuthMiddleware(authHeader) IN
    IF userId = 0 THEN Result(Error(401, "Unauthorized"), expenses)
    ELSE IF ~body.present
    THEN Result(Error(400, "Request body is required"), expenses)
    ELSE IF body.categoryId = 0
    THEN Result(Error(400, "categoryId is required"), expenses)
    ELSE IF body.amount = Undefined \/ body.amount = JsStr("")
    THEN Result(Error(400, "amount is required"), expenses)
    ELSE IF AmountRejected(Number(body.amount))
    THEN Result(Error(400, "amount must be a positive number"), expenses)
    ELSE IF body.date = ""
    THEN Result(Error(400, "date is required"), expenses)
    ELSE IF ParseDate(body.date) = 0
    THEN Result(Error(400, "Invalid date format (ISO 8601 expected)"), expenses)
    ELSE IF AmountStoreFails(Number(body.amount))
    THEN Result(Error(500, "Failed to create expense record"), expenses)
    ELSE IF MoneyRowFkFails(userId, body.categoryId)
    THEN Result(Error(400, "Invalid categoryId: Category does not exist"),
                expenses)
    ELSE Result(Ok(201, <<ExpensesInsertRow(userId, body)>>),
                expenses \cup {ExpensesInsertRow(userId, body)})

\* What a POST may end in: the handler's run when every query goes
\* through, and, after an insert that went through, the re-read of the
\* row failing, which the catch answers with 500.  Nothing undoes the
\* insert: the statements run outside a transaction.
PostExpensesOutcomes(authHeader, body) ==
    LET r == PostExpensesHandler(authHeader, body) IN
    {r} \cup (IF r.resp.status = 201
              THEN {Result(Error(500, "Failed to create expense record"),
                           r.expenses)}
              ELSE {})

\* Whether the POST branch gets as far as readBody.
PostExpensesReadsBody(authHeader) == AuthMiddleware(authHeader) # 0

(***************************************************************************)
(* server/api/users/index.get.ts: GET /users                               *)
(***************************************************************************)

\* findMany without its `columns`: every column of users.
GetUsersAllColumns == {"id", "email", "name", "password"}

GetUsersColumns == {"id", "email", "name"}

\* balances: { orderBy: desc(date), limit: 1 }: the rows that may come
\* first, each as the one-row list, or the empty list.
LatestBalance(userId) ==
    LET mine == {b \in balances : b.userId = userId} IN
    IF mine = {} THEN {<<>>}
    ELSE {<<b>> : b \in {x \in mine : \A y \in mine : y.date <= x.date}}

\* One user of findMany with its categories and its latest balance.
UserWith(u, latest) ==
    [user |-> Columns(u, GetUsersColumns),
     categories |-> {c \in categories : c.userId = u.id},
     balances |-> latest]

\* The responses the handler may give.
GetUsersResponses(authHeader) ==
    IF AuthMiddleware(authHeader) = 0 THEN {Error(401, "Unauthorized")}
    ELSE {Ok(200, {UserWith(u, pick[u.id]) : u \in users}) :
            pick \in {f \in [{u.id : u \in users} ->
                               UNION {LatestBalance(u.id) : u \in users}] :
                        \A u \in users : f[u.id] \in LatestBalance(u.id)}}

(***************************************************************************)
(* server/db/queries.ts: DatabaseQueries                                   *)
(***************************************************************************)

\* getExpensesByUser(userId, startDate?, endDate?); 0 is a date not given.
getExpensesByUser(userId, startDate, endDate) ==
    {e \in expenses :
        /\ e.userId = userId
        /\ (startDate # 0 => e.date >= startDate)
        /\ (endDate # 0 => e.date <= endDate)}

CategoryTypes == {"income", "expense"}

Dates == {1, 5}

\* createCategory: the categories table afterwards (user_id is a foreign key).
createCategory(userId, type) ==
    IF UserById(userId) = {} THEN categories
    ELSE categories \cup {[id |-> nextId.categories, type |-> type, userId |-> userId]}

\* createIncome: the income table afterwards.
createIncome(userId, categoryId, date) ==
    IF MoneyRowFkFails(userId, categoryId) THEN income
    ELSE income \cup {[id |-> nextId.income, userId |-> userId,
                       categoryId |-> categoryId, amount |-> 500000, date |-> date]}

\* createBalance: the balances table afterwards.
createBalance(userId, date) ==
    IF UserById(userId) = {} THEN balances
    ELSE balances \cup {[id |-> nextId.balances, userId |-> userId,
                         amount |-> 1000000, date |-> date]}

(***************************************************************************)
(* getTransactionSummary and the two summary handlers                      *)
(***************************************************************************)

\* SUM(amount) over rows of one table, in hundredths.
RECURSIVE SumAmounts(_)
SumAmounts(rows) ==
    IF rows = {} THEN 0
    ELSE LET r == CHOOSE x \in rows : TRUE IN r.amount + SumAmounts(rows \ {r})

\* SQL SUM: NULL over no rows.
SqlSum(rows) ==
    IF rows = {} THEN [null |-> TRUE, v |-> 0]
    ELSE [null |-> FALSE, v |-> SumAmounts(rows)]

\* COALESCE(x, 0)
Coalesce(x) == IF x.null THEN [null |-> FALSE, v |-> 0] ELSE x

\* Number(x || 0)
NumberOrZero(x) == IF x.null THEN 0 ELSE x.v

\* InWindow with gt and lt for gte and lte.
InWindowExclusive(r, userId, startDate, endDate) ==
    r.userId = userId /\ r.date > startDate /\ r.date < endDate

\* and(eq(userId), gte(date, startDate), lte(date, endDate))
InWindow(r, userId, startDate, endDate) ==
    r.userId = userId /\ r.date >= startDate /\ r.date <= endDate

\* select COALESCE(SUM(amount), 0) as total, COUNT(*) as count
SelectTotals(rows) ==
    [total |-> NumberOrZero(Coalesce(SqlSum(rows))), count |-> Cardinality(rows)]

getTransactionSummary(userId, startDate, endDate) ==
    LET totalIncome ==
            SelectTotals({r \in income : InWindow(r, userId, startDate, endDate)})
        totalExpenses ==
            SelectTotals({r \in expenses : InWindow(r, userId, startDate, endDate)})
    IN [income |-> totalIncome, expenses |-> totalExpenses,
        net |-> totalIncome.total - totalExpenses.total]

\* The dates a window of getTransactionSummary is drawn from.
WindowDates == {1, 3, 5}

\* The categories row a left join attaches to an expense: its name column,
\* which the row's id stands for, or NULL (0) when no row has the id.
JoinedCategoryName(e) ==
    IF CategoryById(e.categoryId) = {} THEN 0
    ELSE (CHOOSE c \in CategoryById(e.categoryId) : TRUE).id

\* getCategorySpending grouping by the expense, not by its category.
getCategorySpendingPerExpense(userId, startDate, endDate) ==
    {[categoryId |-> e.categoryId, categoryName |-> JoinedCategoryName(e),
      total |-> e.amount, count |-> 1] :
        e \in {r \in expenses : InWindow(r, userId, startDate, endDate)}}

\* getCategorySpending: SUM(amount) and COUNT(*) of the expenses of the
\* user in the window, grouped by expenses.categoryId and categories.name.
getCategorySpending(userId, startDate, endDate) ==
    LET rows == {r \in expenses : InWindow(r, userId, startDate, endDate)}
        groups == {<<r.categoryId, JoinedCategoryName(r)>> : r \in rows}
        Group(g) == {r \in rows : <<r.categoryId, JoinedCategoryName(r)>> = g}
    IN {[categoryId |-> g[1], categoryName |-> g[2],
         total |-> SqlSum(Group(g)).v, count |-> Cardinality(Group(g))] :
            g \in groups}

\* new Date() and the first day of its year, as the handler may read them.
Clocks == {[yearStart |-> 0, now |-> 3], [yearStart |-> 0, now |-> 6]}

\* The query string of a summary request: userId 0 is a query without it.
SummaryQueries ==
    [userId : {0} \cup UserIds, startDate : DateInputs, endDate : DateInputs]

\* The body of both handlers after the userId is settled: a date that
\* does not parse makes the query throw, which the catch answers.
SummaryData(userId, query, clock, failure) ==
    LET startDate == IF query.startDate # "" THEN ParseDate(query.startDate)
                     ELSE clock.yearStart
        endDate == IF query.endDate # "" THEN ParseDate(query.endDate)
                   ELSE clock.now
        s == getTransactionSummary(userId, startDate, endDate)
    IN IF (query.startDate # "" /\ ParseDate(query.startDate) = 0)
          \/ (query.endDate # "" /\ ParseDate(query.endDate) = 0)
       THEN failure
       ELSE Ok(200, [userId |-> userId, start |-> startDate, end |-> endDate,
                     totalIncome |-> s.income.total,
                     totalExpenses |-> s.expenses.total,
                     netAmount |-> s.income.total - s.expenses.total])

\* server/api/transactions/summary.get.ts
SummaryHandler(authHeader, query, clock) ==
    IF AuthMiddleware(authHeader) = 0 THEN Error(401, "Unauthorized")
    ELSE SummaryData(AuthMiddleware(authHeader), query, clock,
                     Error(500, "Failed to fetch transaction summary"))

\* The summary handler of server/api/users/index.get.ts: the userId is
\* read from the query and no status is set on an error.
SummaryByQueryHandler(authHeader, query, clock) ==
    IF query.userId = 0 THEN Error(200, "Valid userId is required")
    ELSE SummaryData(query.userId, query, clock,
                     Error(200, "Failed to fetch transaction summary"))

(***************************************************************************)
(* Deletes of parent rows: ON DELETE CASCADE and ON DELETE RESTRICT        *)
(***************************************************************************)

\* Whether a row of the two money tables, of a user other than
\* exceptUserId (0: of any user), references the category.
Referenced(categoryId, exceptUserId) ==
    \/ \E r \in income : r.categoryId = categoryId /\ r.userId # exceptUserId
    \/ \E r \in expenses : r.categoryId = categoryId /\ r.userId # exceptUserId

\* delete from users where id = :id.  The user's categories, income,
\* expenses and balances go with it (cascade); the statement fails as a
\* whole when a row that stays references one of those categories
\* (restrict).
DeleteUserRestricted(id) ==
    \E c \in categories :
        c.userId = id /\ Referenced(c.id, id)

Without(rows, id) == {r \in rows : r.userId # id}

Tables(ok, u, c, i, e, b) ==
    [ok |-> ok, users |-> u, categories |-> c, income |-> i, expenses |-> e,
     balances |-> b]

\* Whether the statement went through, and the tables afterwards.
DeleteUser(id) ==
    IF DeleteUserRestricted(id)
    THEN Tables(FALSE, users, categories, income, expenses, balances)
    ELSE Tables(TRUE, {u \in users : u.id # id}, Without(categories, id),
                Without(income, id), Without(expenses, id),
                Without(balances, id))

\* delete from categories where id = :id: fails while a money row
\* references it.
\* DeleteCategoryRestricted without the two keys on category_id.
DeleteCategoryUnrestricted(id) == FALSE

DeleteCategoryRestricted(id) == Referenced(id, 0)

DeleteCategory(id) ==
    IF DeleteCategoryRestricted(id) THEN categories
    ELSE {c \in categories : c.id # id}

(***************************************************************************)
(* The state machine: each request is handled as one step                  *)
(***************************************************************************)

\* No listing in progress.
NoListing == [rows |-> 0, limit |-> "", offset |-> "", resp |-> Ok(0, NoData)]

Init ==
    /\ users = {}
    /\ categories = {}
    /\ income = {}
    /\ expenses = {}
    /\ balances = {}
    /\ nextId = [users |-> 1, categories |-> 1, income |-> 1, expenses |-> 1,
                 balances |-> 1]
    /\ ops = 0
    /\ listing = NoListing
    /\ requests = <<>>
    /\ connection = 0
    /\ db = 0
    /\ sockets = {}
    /\ calls = <<>>

\* A write counts against the bounds; an insert into a table takes the
\* table's next AUTO_INCREMENT id.
Wrote(table) ==
    /\ ops < MaxOps
    /\ ops' = ops + 1
    /\ nextId' = IF table = "" THEN nextId
                 ELSE [nextId EXCEPT ![table] = nextId[table] + 1]
    /\ UNCHANGED others

NoWrite == UNCHANGED <<nextId, ops>> /\ UNCHANGED others

RegisterRequest ==
    \E body \in RegisterBodies :
        /\ users' = RegisterUsers(body)
        /\ IF users' # users
           THEN nextId.users <= MaxUsers /\ Wrote("users")
           ELSE NoWrite
        /\ UNCHANGED <<categories, income, expenses, balances>>

LoginRequest ==
    \E body \in LoginBodies :
        /\ LoginResponse(body).status \in {200, 400, 401}
        /\ UNCHANGED vars

MeRequest ==
    \E authHeader \in AuthHeaders :
        /\ MeResponse(authHeader).status \in {200, 401, 404}
        /\ UNCHANGED vars

GetUsersRequest ==
    \E authHeader \in AuthHeaders :
        \E resp \in GetUsersResponses(authHeader) :
            /\ resp.status \in {200, 401}
            /\ UNCHANGED vars

ExpenseIdRequest ==
    \E method \in {"PUT", "DELETE"}, id \in ExpenseIdInputs,
       authHeader \in AuthHeaders, xUserId \in XUserIdHeaders :
        \E body \in IF ExpenseIdReadsBody(method, id, authHeader, xUserId)
                    THEN ExpenseBodies \cup {NoBody} ELSE {NoBody} :
            /\ expenses' =
                 ExpenseIdHandler(method, id, authHeader, xUserId, body).expenses
            /\ IF expenses' # expenses THEN Wrote("") ELSE NoWrite
            /\ UNCHANGED <<users, categories, income, balances>>

GetExpensesRequest ==
    \E authHeader \in AuthHeaders, query \in ExpenseQueries :
        \E resp \in GetExpensesResponses(authHeader, query) :
            /\ resp.status \in {200, 401}
            /\ UNCHANGED vars

PostExpensesRequest ==
    \E authHeader \in AuthHeaders :
        \E body \in IF PostExpensesReadsBody(authHeader)
                    THEN ExpenseBodies \cup {NoBody} ELSE {NoBody} :
            /\ \E r \in PostExpensesOutcomes(authHeader, body) :
                  expenses' = r.expenses
            /\ IF expenses' # expenses
               THEN nextId.expenses <= MaxExpenses /\ Wrote("expenses")
               ELSE NoWrite
            /\ UNCHANGED <<users, categories, income, balances>>

CreateCategory ==
    \E userId \in UserIds, type \in CategoryTypes :
        /\ nextId.categories <= MaxCategories
        /\ categories' = createCategory(userId, type)
        /\ categories' # categories
        /\ Wrote("categories")
        /\ UNCHANGED <<users, income, expenses, balances>>

CreateIncome ==
    \E userId \in UserIds, categoryId \in 1..MaxCategories, date \in Dates :
        /\ nextId.income <= MaxIncome
        /\ income' = createIncome(userId, categoryId, date)
        /\ income' # income
        /\ Wrote("income")
        /\ UNCHANGED <<users, categories, expenses, balances>>

CreateBalance ==
    \E userId \in UserIds, date \in Dates :
        /\ nextId.balances <= MaxBalances
        /\ balances' = createBalance(userId, date)
        /\ balances' # balances
        /\ Wrote("balances")
        /\ UNCHANGED <<users, categories, income, expenses>>

SummaryRequest ==
    \E authHeader \in AuthHeaders, query \in SummaryQueries, clock \in Clocks :
        /\ query.userId = 0
        /\ SummaryHandler(authHeader, query, clock).status \in {200, 401, 500}
        /\ UNCHANGED vars

SummaryByQueryRequest ==
    \E authHeader \in AuthHeaders, query \in SummaryQueries, clock \in Clocks :
        /\ SummaryByQueryHandler(authHeader, query, clock).status = 200
        /\ UNCHANGED vars

\* queries.getCategorySpending(userId, startDate, endDate)
GetCategorySpending ==
    \E userId \in UserIds, startDate \in WindowDates, endDate \in WindowDates :
        /\ Cardinality(getCategorySpending(userId, startDate, endDate))
              <= Cardinality(expenses)
        /\ UNCHANGED vars

\* db.delete(users).where(eq(users.id, id)) for a stored user.
DeleteUserStatement ==
    \E id \in UserIds :
        /\ UserById(id) # {}
        /\ users' = DeleteUser(id).users
        /\ categories' = DeleteUser(id).categories
        /\ income' = DeleteUser(id).income
        /\ expenses' = DeleteUser(id).expenses
        /\ balances' = DeleteUser(id).balances
        /\ IF DeleteUser(id).ok THEN Wrote("") ELSE NoWrite

\* db.delete(categories).where(eq(categories.id, id)) for a stored category.
DeleteCategoryStatement ==
    \E id \in 1..MaxCategories :
        /\ CategoryById(id) # {}
        /\ categories' = DeleteCategory(id)
        /\ IF categories' # categories THEN Wrote("") ELSE NoWrite
        /\ UNCHANGED <<users, income, expenses, balances>>

Next ==
    \/ RegisterRequest
    \/ LoginRequest
    \/ MeRequest
    \/ GetUsersRequest
    \/ ExpenseIdRequest
    \/ GetExpensesRequest
    \/ PostExpensesRequest
    \/ CreateCategory
    \/ CreateIncome
    \/ CreateBalance
    \/ SummaryRequest
    \/ SummaryByQueryRequest
    \/ GetCategorySpending
    \/ DeleteUserStatement
    \/ DeleteCategoryStatement

Spec == Init /\ [][Next]_vars

----------------------------------------------------------------------------
\* The page of GET /expenses over a table of many rows: limit and offset
\* as the strings of the query, the matching rows as their positions in the
\* date-descending order.

MaxRows == 102

LimitStrings == {"", "abc", "0", "1", "50", "100", "101", "150", "-2", "1.004"}

OffsetStrings == {"", "abc", "0", "1", "2", "-2"}

\* Math.min(a, b)
MathMin(a, b) ==
    IF a.nan \/ b.nan THEN NaN
    ELSE IF a.inf THEN b
    ELSE IF b.inf THEN a
    ELSE Finite(Min(a.milli, b.milli))

ListingLimitUncapped(str) ==
    IF str # "" THEN StringToNumber(str) ELSE Finite(DefaultLimit * 1000)

\* query.limit ? Math.min(Number(query.limit), 100) : 50
ListingLimit(str) ==
    IF str # "" THEN MathMin(StringToNumber(str), Finite(MaxLimit * 1000))
    ELSE Finite(DefaultLimit * 1000)

\* query.offset ? Number(query.offset) : 0
ListingOffset(str) == IF str # "" THEN StringToNumber(str) ELSE Finite(0)

\* LIMIT and OFFSET take a non-negative integer; the statement fails on
\* anything else.
SqlCountFails(num) == num.nan \/ num.inf \/ num.milli < 0 \/ num.milli % 1000 # 0

\* The GET branch over `rows` matching rows.
ListingResponse(rows, limit, offset) ==
    IF SqlCountFails(ListingLimit(limit)) \/ SqlCountFails(ListingOffset(offset))
    THEN Error(500, "Failed to fetch expenses records")
    ELSE Ok(200, Page([i \in 1..rows |-> i], ListingLimit(limit).milli \div 1000,
                      ListingOffset(offset).milli \div 1000))

InitPage ==
    /\ users = {}
    /\ categories = {}
    /\ income = {}
    /\ expenses = {}
    /\ balances = {}
    /\ nextId = [users |-> 1, categories |-> 1, income |-> 1, expenses |-> 1,
                 balances |-> 1]
    /\ ops = 0
    /\ listing \in [rows : 0..MaxRows, limit : LimitStrings,
                    offset : OffsetStrings, resp : {Ok(0, NoData)}]
    /\ requests = <<>>
    /\ connection = 0
    /\ db = 0
    /\ sockets = {}
    /\ calls = <<>>

\* GET /expenses?limit=..&offset=..
ListingRequest ==
    /\ listing.resp.status = 0
    /\ listing' = [listing EXCEPT
                     !.resp = ListingResponse(listing.rows, listing.limit,
                                              listing.offset)]
    /\ UNCHANGED <<store, requests, connection, db, sockets, calls>>

NextPage == ListingRequest

SpecPage == InitPage /\ [][NextPage]_vars

(***************************************************************************)
(* Properties                                                              *)
(***************************************************************************)

NoFilters ==
    [startDate |-> "", endDate |-> "", categoryId |-> 0, limit |-> -1,
     offset |-> -1]

AnyBody == ExpenseBodies \cup {NoBody}

\* C1: every record the expense list (GET /expenses, getExpensesByUser)
\* returns to a caller authenticated as user B has userId = B, whatever
\* startDate, endDate, categoryId, limit and offset the request carries.
C1_ListReturnsOwnRecords ==
    /\ \A authHeader \in AuthHeaders, query \in ExpenseQueries :
         \A resp \in GetExpensesResponses(authHeader, query) :
            \A i \in 1..Len(resp.data) :
                resp.data[i].userId = AuthMiddleware(authHeader)
    /\ \A B \in UserIds, startDate \in {0} \cup Dates, endDate \in {0} \cup Dates :
         \A e \in getExpensesByUser(B, startDate, endDate) : e.userId = B

\* C1 witness: user A has an expense stored, and another registered user B
\* lists with no filter and is answered 200 without it.
C1_Witness ==
    \E e \in expenses, B \in UserIds :
        /\ B # e.userId
        /\ UserById(B) # {}
        /\ Bearer(generateToken(B)) \in AuthHeaders
        /\ Ok(200, <<>>) \in GetExpensesResponses(Bearer(generateToken(B)), NoFilters)

\* C2 (the claim as stated): no Category and no BalanceSnapshot that GET
\* /users returns to a caller authenticated as user B is owned by another
\* user.
C2_UsersListReturnsOwnRecords ==
    \A authHeader \in AuthHeaders :
        AuthMiddleware(authHeader) # 0 =>
            \A resp \in GetUsersResponses(authHeader) :
                \A item \in resp.data :
                    /\ \A c \in item.categories :
                           c.userId = AuthMiddleware(authHeader)
                    /\ \A i \in 1..Len(item.balances) :
                           item.balances[i].userId = AuthMiddleware(authHeader)

\* C3: a PUT or DELETE on /expenses/:id by a caller authenticated as user B
\* against an expense of another user is answered 404 and leaves the
\* expenses table, that expense included, as it was.
C3_ForeignExpenseNotFound ==
    \A method \in {"PUT", "DELETE"}, e \in expenses,
       authHeader \in AuthHeaders, xUserId \in XUserIdHeaders :
        (AuthMiddleware(authHeader) # 0 /\ AuthMiddleware(authHeader) # e.userId)
        => \A body \in AnyBody :
             LET r == ExpenseIdHandler(method, e.id, authHeader, xUserId, body) IN
             /\ r.resp = Error(404, "Expense record not found")
             /\ r.expenses = expenses
             /\ e \in r.expenses

\* C3 witness: an expense of user A is stored, registered user B is not A,
\* and B's DELETE and PUT of it are answered 404.
C3_Witness ==
    \E e \in expenses, B \in UserIds, body \in ExpenseBodies :
        /\ B # e.userId
        /\ UserById(B) # {}
        /\ Bearer(generateToken(B)) \in AuthHeaders
        /\ body.description = "lunch"
        /\ ExpenseIdHandler("DELETE", e.id, Bearer(generateToken(B)), 0,
                            NoBody).resp.status = 404
        /\ ExpenseIdHandler("PUT", e.id, Bearer(generateToken(B)), 0,
                            body).resp.status = 404

\* C4 (the claim as stated): a PUT or DELETE on /expenses/:id of a stored
\* expense whose Authorization header is absent or does not verify is
\* answered 401 and changes no expense, whatever x-user-id header and body
\* the request carries.
C4_UnauthenticatedRejected ==
    \A method \in {"PUT", "DELETE"}, e \in expenses,
       authHeader \in AuthHeaders, xUserId \in XUserIdHeaders :
        AuthMiddleware(authHeader) = 0
        => \A body \in AnyBody :
             LET r == ExpenseIdHandler(method, e.id, authHeader, xUserId, body) IN
             /\ r.resp.status = 401
             /\ r.expenses = expenses

\* The body passes the register handler's checks of its fields.
RegisterFieldsValid(body) ==
    /\ body.email # <<>> /\ body.password # <<>> /\ body.name # <<>>
    /\ EmailRegexTest(body.email)
    /\ Len(body.password) >= 6

\* C5: no two stored users share an email; a register request with the
\* email of a stored user creates no user and is refused, with 409 when
\* its fields pass the handler's checks (400 when they do not).
C5_EmailUnique ==
    /\ \A u \in users, v \in users : (u.email = v.email \/ u.id = v.id) => u = v
    /\ \A body \in RegisterBodies :
         UserByEmail(body.email) # {}
         => /\ RegisterUsers(body) = users
            /\ RegisterStatus(body) =
                 IF RegisterFieldsValid(body) THEN 409 ELSE 400
            /\ RegisterResponse(body).status = RegisterStatus(body)

\* C5 witness: two users are stored and a well-formed register request
\* with the email of one of them is answered 409.
C5_Witness ==
    /\ Cardinality(users) = 2
    /\ \E body \in RegisterBodies :
         /\ RegisterFieldsValid(body)
         /\ UserByEmail(body.email) # {}
         /\ RegisterResponse(body).status = 409

\* Whether a user object of a response body holds a password column or
\* one of the hashes.
HoldsHash(obj, hashes) ==
    \/ "password" \in DOMAIN obj
    \/ \E f \in DOMAIN obj \ {"id"} : obj[f] \in hashes

StoredHashes(table) == {u.password : u \in table}

\* C6: no response body of register, login, GET /auth/me or GET /users
\* holds a stored password hash.
C6_NoHashInResponse ==
    /\ \A body \in RegisterBodies :
         RegisterResponse(body).status = 200
         => /\ ~HoldsHash(RegisterResponse(body).data.user,
                          StoredHashes(RegisterUsers(body)))
            /\ DOMAIN RegisterResponse(body).data = {"token", "user"}
    /\ \A body \in LoginBodies :
         LoginResponse(body).status = 200
         => /\ ~HoldsHash(LoginResponse(body).data.user, StoredHashes(users))
            /\ DOMAIN LoginResponse(body).data = {"token", "user"}
    /\ \A authHeader \in AuthHeaders :
         MeResponse(authHeader).status = 200
         => ~HoldsHash(MeResponse(authHeader).data.user, StoredHashes(users))
    /\ \A authHeader \in AuthHeaders :
         \A resp \in GetUsersResponses(authHeader) :
            resp.status = 200
            => \A item \in resp.data :
                  /\ ~HoldsHash(item.user, StoredHashes(users))
                  /\ \A c \in item.categories : "password" \notin DOMAIN c

\* C6 witness: a user is stored, logs in and is answered 200, and GET
\* /users with the user's token is answered 200 with the user in it.
C6_Witness ==
    \E u \in users, body \in LoginBodies :
        /\ LoginResponse(body).status = 200
        /\ LoginResponse(body).data.user.id = u.id
        /\ MeResponse(Bearer(generateToken(u.id))).status = 200
        /\ \E resp \in GetUsersResponses(Bearer(generateToken(u.id))) :
              resp.status = 200 /\ \E item \in resp.data : item.user.id = u.id

\* C7: for the stored users and the stored users without the user of
\* email e, a login with email e and a password that does not verify is
\* answered alike: 401 with the one message.
C7_LoginDoesNotRevealEmail ==
    \A body \in LoginBodies : \A u \in UserByEmail(body.email) :
        (body.password # <<>> /\ ~comparePassword(body.password, u.password))
        => /\ LoginHandler(users, body) = LoginHandler(users \ {u}, body)
           /\ LoginHandler(users, body) = Error(401, "Invalid credentials")
           /\ UserByEmail(body.email) \ {u} = {}

\* C7 witness: a user is stored and a login with the user's email and
\* another password is answered 401.
C7_Witness ==
    \E u \in users, body \in LoginBodies :
        /\ body.email = u.email
        /\ body.password # <<>>
        /\ ~comparePassword(body.password, u.password)
        /\ LoginResponse(body).status = 401

\* C8 (the claim as stated): every stored expense has an amount above 0
\* (in hundredths, so with 2 fractional digits).
C8_StoredAmountPositive == \A e \in expenses : e.amount > 0

\* The decimal numerals among the strings of the request domain.
NumeralStrings == {"1.004"}

\* An amount that is missing, not numeric, zero or negative.
AmountInvalid(v) ==
    \/ v = Undefined
    \/ v.t = "boolean"
    \/ (v.t = "string" /\ v.s \notin NumeralStrings)
    \/ (v.t = "number" /\ v.n <= 0)

\* C9 (the claim as stated): a POST /expenses of an authenticated caller
\* whose amount is missing, non-numeric, zero or negative is answered 400
\* and inserts nothing.
C9_InvalidAmountRejected ==
    \A authHeader \in AuthHeaders, body \in ExpenseBodies :
        (AuthMiddleware(authHeader) # 0 /\ AmountInvalid(body.amount))
        => /\ PostExpensesHandler(authHeader, body).resp.status = 400
           /\ PostExpensesHandler(authHeader, body).expenses = expenses

\* C10 (the claim as stated): deleting a user removes the user and every
\* category, income, expense and balance row of the user, and leaves the
\* rows of the other users as they were.
C10_DeleteUserCascades ==
    \A u \in users :
        LET t == DeleteUser(u.id) IN
        /\ u \notin t.users
        /\ \A c \in t.categories : c.userId # u.id
        /\ \A r \in t.income : r.userId # u.id
        /\ \A r \in t.expenses : r.userId # u.id
        /\ \A r \in t.balances : r.userId # u.id
        /\ t.users \ {u} = users \ {u}
        /\ Without(t.categories, u.id) = Without(categories, u.id)
        /\ Without(t.income, u.id) = Without(income, u.id)
        /\ Without(t.expenses, u.id) = Without(expenses, u.id)
        /\ Without(t.balances, u.id) = Without(balances, u.id)

\* C11: deleting a category that an income or expense row references is
\* rejected: the statement leaves the categories table as it was; in no
\* step that keeps the users does a referenced category go, and a step
\* that deletes a category changes no other table.
C11_ReferencedCategoryKept ==
    /\ [](\A c \in categories :
            Referenced(c.id, 0)
            => DeleteCategoryRestricted(c.id) /\ DeleteCategory(c.id) = categories)
    /\ [][users' = users
          => /\ \A c \in categories : Referenced(c.id, 0) => c \in categories'
             /\ (categories' # categories /\ categories' \subseteq categories)
                => (income' = income /\ expenses' = expenses
                    /\ balances' = balances)]_vars

\* C11 witness: a category is stored with an expense referencing it, and
\* the delete of it is refused.
C11_Witness ==
    \E c \in categories, e \in expenses :
        /\ e.categoryId = c.id
        /\ DeleteCategoryRestricted(c.id)
        /\ DeleteCategory(c.id) = categories

\* C12: every category, income, expense and balance row references a
\* stored user, and every income and expense row a stored category.
C12_ReferencesExist ==
    /\ \A c \in categories : UserById(c.userId) # {}
    /\ \A r \in income : UserById(r.userId) # {} /\ CategoryById(r.categoryId) # {}
    /\ \A r \in expenses : UserById(r.userId) # {} /\ CategoryById(r.categoryId) # {}
    /\ \A r \in balances : UserById(r.userId) # {}
    /\ \A t \in IssuedTokens, body \in ExpenseBodies :
         UserById(t.userId) = {}
         => /\ PostExpensesHandler(Bearer(t), body).expenses = expenses
            /\ PostExpensesHandler(Bearer(t), body).resp.status \in {400, 500}

\* C12 witness: a user was deleted, another user's category is stored, and
\* a POST with the deleted user's token, that category and a valid amount
\* and date is answered 400.
C12_Witness ==
    \E t \in IssuedTokens, c \in categories, body \in ExpenseBodies :
        /\ UserById(t.userId) = {}
        /\ body.categoryId = c.id
        /\ body.amount = JsStr("1.004")
        /\ body.date = "2024-01-01"
        /\ PostExpensesHandler(Bearer(t), body).resp.status = 400

\* The sum and the number of the rows with ids up to n that user userId
\* owns and whose date lies in [startDate, endDate], row by row.
RECURSIVE TotalUpTo(_, _, _, _, _)
TotalUpTo(rows, n, userId, startDate, endDate) ==
    IF n = 0 THEN [total |-> 0, count |-> 0]
    ELSE LET rest == TotalUpTo(rows, n - 1, userId, startDate, endDate)
             hit == {r \in rows : /\ r.id = n
                                  /\ r.userId = userId
                                  /\ startDate <= r.date
                                  /\ r.date <= endDate}
         IN IF hit = {} THEN rest
            ELSE [total |-> rest.total + (CHOOSE r \in hit : TRUE).amount,
                  count |-> rest.count + 1]

OwnIncome(userId, startDate, endDate) ==
    TotalUpTo(income, nextId.income - 1, userId, startDate, endDate)

OwnExpenses(userId, startDate, endDate) ==
    TotalUpTo(expenses, nextId.expenses - 1, userId, startDate, endDate)

\* C13: for every user and window [startDate, endDate],
\* getTransactionSummary returns the sum and the number of the user's
\* income and expense rows dated in the window, bounds included, total 0
\* and count 0 when none matches, and net = income.total - expenses.total;
\* the summary handler answers with the same totals.
C13_SummaryMatchesRecords ==
    /\ \A userId \in UserIds, startDate \in WindowDates, endDate \in WindowDates :
         LET s == getTransactionSummary(userId, startDate, endDate) IN
         /\ s.income = OwnIncome(userId, startDate, endDate)
         /\ s.expenses = OwnExpenses(userId, startDate, endDate)
         /\ s.net = s.income.total - s.expenses.total
         /\ s.income.count = 0 => s.income.total = 0
         /\ s.expenses.count = 0 => s.expenses.total = 0
    /\ \A authHeader \in AuthHeaders, query \in SummaryQueries, clock \in Clocks :
         LET resp == SummaryHandler(authHeader, query, clock) IN
         resp.status = 200
         => /\ resp.data.totalIncome =
                 OwnIncome(resp.data.userId, resp.data.start, resp.data.end).total
            /\ resp.data.totalExpenses =
                 OwnExpenses(resp.data.userId, resp.data.start, resp.data.end).total
            /\ resp.data.netAmount =
                 resp.data.totalIncome - resp.data.totalExpenses

\* C13 witness: a user has an income row and an expense row; the window
\* of exactly the income's date counts it, the window of both dates gives
\* a net above 0, and a window before both gives zeros.
C13_Witness ==
    \E i \in income, e \in expenses :
        /\ i.userId = e.userId
        /\ e.amount > 0
        /\ i.date = 5 /\ e.date = 5
        /\ getTransactionSummary(i.userId, 5, 5).income.count = 1
        /\ getTransactionSummary(i.userId, 1, 5).net = i.amount - e.amount
        /\ getTransactionSummary(i.userId, 1, 3) =
             [income |-> [total |-> 0, count |-> 0],
              expenses |-> [total |-> 0, count |-> 0], net |-> 0]

\* A row of the two money tables that the caller does not own is stored.
OthersRecordStored(caller) ==
    \/ \E r \in income : r.userId # caller
    \/ \E r \in expenses : r.userId # caller

\* The answer the claim allows a summary request of the caller.
SummaryOfCaller(caller, resp) ==
    /\ caller = 0 => resp.status = 401
    /\ (resp.status = 200 /\ resp.error = "")
       => /\ resp.data.userId = caller
          /\ resp.data.totalIncome =
               OwnIncome(caller, resp.data.start, resp.data.end).total
          /\ resp.data.totalExpenses =
               OwnExpenses(caller, resp.data.start, resp.data.end).total

\* C14 (the claim as stated): with records of other users stored, a
\* summary request is answered 401 when the middleware resolved no
\* identity, and otherwise with totals over the caller's own records,
\* whatever the query holds; for both summary handlers.
C14_SummaryOfCallerOnly ==
    \A authHeader \in AuthHeaders, query \in SummaryQueries, clock \in Clocks :
        OthersRecordStored(AuthMiddleware(authHeader))
        => /\ SummaryOfCaller(AuthMiddleware(authHeader),
                              SummaryHandler(authHeader, query, clock))
           /\ SummaryOfCaller(AuthMiddleware(authHeader),
                              SummaryByQueryHandler(authHeader, query, clock))

\* The columns of an expense a PUT body may set.
BodyColumns == {"categoryId", "amount", "description", "date"}

\* A body holding description alone.
OnlyDescription ==
    [present |-> TRUE, categoryId |-> 0, amount |-> Undefined,
     description |-> "lunch", date |-> ""]

\* C15: a PUT /expenses/:id of the owner answered 200 leaves every other
\* expense as it was and, of the expense itself, changes only columns the
\* body holds, to the values the body gives, and updatedAt, which moves
\* when a column changed; id, userId and createdAt stay.
C15_PutChangesOnlyBodyFields ==
    \A e \in expenses, authHeader \in AuthHeaders, body \in ExpenseBodies :
        LET r == ExpenseIdHandler("PUT", e.id, authHeader, 0, body) IN
        (AuthMiddleware(authHeader) = e.userId /\ r.resp.status = 200)
        => \E n \in r.expenses :
             /\ r.resp.data = <<n>>
             /\ r.expenses \ {n} = expenses \ {e}
             /\ n.id = e.id /\ n.userId = e.userId /\ n.createdAt = e.createdAt
             /\ \A f \in BodyColumns \ UpdateDataKeys(body) : n[f] = e[f]
             /\ body.categoryId # 0 => n.categoryId = body.categoryId
             /\ body.description # NoField => n.description = body.description
             /\ body.date # "" => n.date = ParseDate(body.date)
             /\ body.amount # Undefined
                => n.amount = DecimalRound(Number(body.amount).milli)
             /\ n.updatedAt = IF Columns(n, BodyColumns) = Columns(e, BodyColumns)
                              THEN e.updatedAt ELSE ops + 1

\* C15 witness: the owner's PUT holding description alone, on an expense
\* stored without one, is answered 200; description and updatedAt change
\* and amount, date and categoryId do not.
C15_Witness ==
    \E e \in expenses :
        LET r == ExpenseIdHandler("PUT", e.id, Bearer(generateToken(e.userId)),
                                  0, OnlyDescription) IN
        /\ e.description = Null
        /\ r.resp.status = 200
        /\ \E n \in r.expenses :
              /\ n.id = e.id
              /\ n.description = "lunch"
              /\ n.updatedAt > e.updatedAt
              /\ n.amount = e.amount /\ n.date = e.date
              /\ n.categoryId = e.categoryId

\* An Authorization header of another scheme.
Basic(token) == [scheme |-> "Basic ", token |-> token]

\* The headers of the request domain and the same tokens under another
\* scheme.
AnySchemeHeaders ==
    AuthHeaders \cup {Basic(t) : t \in IssuedTokens} \cup {Basic(ForgedToken(1))}

\* C16: the middleware answers no request itself; the context holds the
\* token's user identifier exactly when the header is 'Bearer <token>' and
\* the token verifies, and no identity otherwise.
C16_MiddlewareNeverRejects ==
    \A authHeader \in AnySchemeHeaders :
        LET ctx == AuthMiddlewareContext(authHeader) IN
        /\ ~ctx.responded
        /\ IF authHeader.scheme = "Bearer " /\ authHeader.token.sig = "secret"
           THEN ctx.userId = authHeader.token.userId
                /\ ctx.user = authHeader.token.userId
                /\ ctx.userId # 0
           ELSE ctx.userId = 0 /\ ctx.user = 0

\* C16 witness: a token was issued; under Bearer it gives its user, under
\* another scheme, forged or with no header the context has no identity,
\* and no request was answered by the middleware.
C16_Witness ==
    \E t \in IssuedTokens :
        /\ AuthMiddlewareContext(Bearer(t)).userId = t.userId
        /\ AuthMiddlewareContext(Basic(t)).userId = 0
        /\ AuthMiddlewareContext(Bearer(ForgedToken(t.userId))).userId = 0
        /\ AuthMiddlewareContext(NoHeader).userId = 0
        /\ ~AuthMiddlewareContext(NoHeader).responded
        /\ ~AuthMiddlewareContext(Bearer(ForgedToken(t.userId))).responded

\* C17: for a PUT or DELETE on /expenses/:id by an authenticated caller,
\* the response for an id of no expense and the response for the id of
\* another user's expense are the same.
C17_NotFoundIndistinguishable ==
    \A e \in expenses, authHeader \in AuthHeaders, id \in ExpenseIdInputs \ {0} :
        (/\ AuthMiddleware(authHeader) # 0
         /\ e.userId # AuthMiddleware(authHeader)
         /\ \A x \in expenses : x.id # id)
        => \A method \in {"PUT", "DELETE"}, xUserId \in XUserIdHeaders,
              body \in AnyBody :
              ExpenseIdHandler(method, e.id, authHeader, xUserId, body).resp
              = ExpenseIdHandler(method, id, authHeader, xUserId, body).resp

\* C17 witness: user A's expense is stored, registered user B deletes it
\* and deletes an id of no expense, and both are answered 404.
C17_Witness ==
    \E e \in expenses, B \in UserIds, id \in ExpenseIdInputs \ {0} :
        /\ B # e.userId
        /\ Bearer(generateToken(B)) \in AuthHeaders
        /\ \A x \in expenses : x.id # id
        /\ ExpenseIdHandler("DELETE", e.id, Bearer(generateToken(B)), 0,
                            NoBody).resp.status = 404
        /\ ExpenseIdHandler("DELETE", id, Bearer(generateToken(B)), 0,
                            NoBody).resp.status = 404
        /\ ExpenseIdHandler("PUT", e.id, Bearer(generateToken(B)), 0,
                            OnlyDescription).resp
           = ExpenseIdHandler("PUT", id, Bearer(generateToken(B)), 0,
                              OnlyDescription).resp

\* The body names a category that is not stored.
NamesNoCategory(body) ==
    body.present /\ body.categoryId # 0 /\ CategoryById(body.categoryId) = {}

\* The amount passes the handlers' check and the column takes it.
AmountAccepted(v) ==
    ~AmountRejected(Number(v)) /\ ~AmountStoreFails(Number(v))

\* C18: a POST /expenses, or a PUT of an own expense that sets categoryId,
\* naming a category that is not stored leaves the expenses as they were
\* and is answered with an error: 400 'Invalid categoryId: Category does
\* not exist' when the other fields of the body are valid.
C18_UnknownCategoryRejected ==
    \A authHeader \in AuthHeaders :
        AuthMiddleware(authHeader) # 0
        => \A body \in ExpenseBodies :
             NamesNoCategory(body)
             => /\ LET r == PostExpensesHandler(authHeader, body) IN
                   /\ r.expenses = expenses
                   /\ r.resp.status \in {400, 500}
                   /\ (AmountAccepted(body.amount) /\ ParseDate(body.date) # 0)
                      => r.resp = Error(400,
                            "Invalid categoryId: Category does not exist")
                /\ \A e \in expenses :
                     LET r == ExpenseIdHandler("PUT", e.id, authHeader, 0, body) IN
                     e.userId = AuthMiddleware(authHeader)
                     => /\ r.expenses = expenses
                        /\ r.resp.status \in {400, 500}
                        /\ ((body.amount = Undefined \/ AmountAccepted(body.amount))
                            /\ (body.date = "" \/ ParseDate(body.date) # 0))
                           => r.resp = Error(400,
                                 "Invalid categoryId: Category does not exist")

\* C18 witness: an expense of a user is stored; the user's PUT setting
\* only a categoryId of no category, and the user's POST with that
\* categoryId and a valid amount and date, are answered 400.
C18_Witness ==
    \E e \in expenses, body \in ExpenseBodies, post \in ExpenseBodies :
        /\ NamesNoCategory(body) /\ NamesNoCategory(post)
        /\ body.amount = Undefined /\ body.date = ""
        /\ post.amount = JsStr("1.004") /\ post.date = "2024-01-05"
        /\ ExpenseIdHandler("PUT", e.id, Bearer(generateToken(e.userId)), 0,
                            body).resp.status = 400
        /\ PostExpensesHandler(Bearer(generateToken(e.userId)), post).resp
             = Error(400, "Invalid categoryId: Category does not exist")

\* Emails that are not local@domain.tld: no tld, a space, no local part,
\* two @, nothing after the dot.
MalformedEmails ==
    { EmailNoTld,
      <<"a", " ", "@", "x", ".", "c">>,
      <<"@", "x", ".", "c">>,
      <<"a", "@", "@", "x", ".", "c">>,
      <<"a", "@", "x", ".">> }

\* C19: a register request with a missing field, an email that is not
\* local@domain.tld or a password under 6 characters is answered 400 and
\* creates no user; a request passing these with an email no user has
\* creates exactly one user, of that email and name, and is answered with
\* a token for the new user and a user object of id, email and name alone.
C19_RegisterValidates ==
    \A body \in RegisterBodies :
        LET resp == RegisterResponse(body) IN
        /\ (\/ body.email = <<>> \/ body.password = <<>> \/ body.name = <<>>
            \/ body.email = EmailNoTld
            \/ Len(body.password) < 6)
           => (resp.status = 400 /\ RegisterUsers(body) = users)
        /\ \A email \in MalformedEmails :
              LET malformed == [body EXCEPT !.email = email] IN
              /\ RegisterResponse(malformed).status = 400
              /\ RegisterUsers(malformed) = users
        /\ (RegisterFieldsValid(body) /\ UserByEmail(body.email) = {})
           => /\ resp.status = 200
              /\ DOMAIN resp.data = {"token", "user"}
              /\ DOMAIN resp.data.user = {"id", "email", "name"}
              /\ resp.data.user.email = body.email
              /\ resp.data.user.name = body.name
              /\ verifyToken(resp.data.token) = resp.data.user.id
              /\ UserById(resp.data.user.id) = {}
              /\ \E u \in RegisterUsers(body) :
                    /\ RegisterUsers(body) = users \cup {u}
                    /\ u \notin users
                    /\ u.id = resp.data.user.id
                    /\ u.email = body.email /\ u.name = body.name
                    /\ comparePassword(body.password, u.password)

\* C19 witness: a user is stored; a request with another email and valid
\* fields is answered 200 and adds a user, and requests with an email
\* without a tld or a short password are answered 400.
C19_Witness ==
    \E u \in users, ok \in RegisterBodies, bad \in RegisterBodies,
       short \in RegisterBodies :
        /\ RegisterFieldsValid(ok) /\ ok.email # u.email
        /\ RegisterResponse(ok).status = 200
        /\ Cardinality(RegisterUsers(ok)) = Cardinality(users) + 1
        /\ bad.email = EmailNoTld /\ bad.password = PasswordGood
        /\ bad.name # <<>>
        /\ RegisterResponse(bad).status = 400
        /\ short.email = ok.email /\ short.password = PasswordShort
        /\ short.name # <<>>
        /\ RegisterResponse(short).status = 400

\* C20 (the claim as stated): whenever a POST /expenses of an
\* authenticated caller is answered 400 or 500, the re-read failing after
\* the insert included, the expenses are as they were before the request.
C20_FailedPostStoresNothing ==
    \A authHeader \in AuthHeaders :
        AuthMiddleware(authHeader) # 0
        => \A body \in AnyBody :
             \A r \in PostExpensesOutcomes(authHeader, body) :
                r.resp.status \in {400, 500} => r.expenses = expenses

\* The caller's expenses that satisfy every filter the query supplies.
FilteredOwn(B, query) ==
    {e \in expenses :
        /\ e.userId = B
        /\ (query.startDate \in {"2024-01-01", "2024-01-05"}
              => e.date >= ParseDate(query.startDate))
        /\ (query.endDate \in {"2024-01-01", "2024-01-05"}
              => e.date <= ParseDate(query.endDate))
        /\ (query.categoryId # 0 => e.categoryId = query.categoryId)}

Max(a, b) == IF a > b THEN a ELSE b

\* C21: GET /expenses returns exactly the caller's expenses that satisfy
\* every supplied filter at once (date >= startDate, date <= endDate,
\* categoryId equal), ordered by date descending, and with no filter all of
\* the caller's expenses, restricted to the page selected by limit and
\* offset: the answer holds no other row and no row twice, is in descending
\* date order, has the length of the page, and a matching row left out lies
\* before the offset or after the page.
C21_ListFiltersOrdersPages ==
    \A authHeader \in AuthHeaders :
        (AuthMiddleware(authHeader) # 0) =>
            \A query \in ExpenseQueries :
                \A resp \in GetExpensesResponses(authHeader, query) :
                    LET B == AuthMiddleware(authHeader)
                        data == resp.data
                        limit == IF query.limit = -1 THEN 50
                                 ELSE IF query.limit > 100 THEN 100
                                 ELSE query.limit
                        offset == IF query.offset = -1 THEN 0 ELSE query.offset
                        own == FilteredOwn(B, query)
                    IN  /\ resp.status = 200
                        /\ \A i \in 1..Len(data) : data[i] \in own
                        /\ \A i, j \in 1..Len(data) :
                              /\ (i # j) => data[i] # data[j]
                              /\ (i < j) => data[i].date >= data[j].date
                        /\ Len(data) = Max(0, Min(Cardinality(own) - offset, limit))
                        /\ \A e \in own :
                              (\A i \in 1..Len(data) : data[i] # e) =>
                                 \/ Cardinality({x \in own : x.date > e.date}) < offset
                                 \/ Cardinality({x \in own : x.date >= e.date})
                                       > offset + Len(data)

\* C21 witness: a user holds an expense dated on the 5th and one dated on
\* the 1st; the unfiltered list answers both, newest first, the list from
\* the 5th on answers the newer one alone, and the second page of size one
\* answers the older one alone.
C21_Witness ==
    \E e1, e2 \in expenses :
        /\ e1.userId = e2.userId
        /\ e1.date = 5
        /\ e2.date = 1
        /\ Bearer(generateToken(e1.userId)) \in AuthHeaders
        /\ GetExpensesResponses(Bearer(generateToken(e1.userId)), NoFilters)
              = {Ok(200, <<e1, e2>>)}
        /\ GetExpensesResponses(Bearer(generateToken(e1.userId)),
                                [NoFilters EXCEPT !.startDate = "2024-01-05"])
              = {Ok(200, <<e1>>)}
        /\ GetExpensesResponses(Bearer(generateToken(e1.userId)),
                                [NoFilters EXCEPT !.limit = 1, !.offset = 1])
              = {Ok(200, <<e2>>)}

\* The whole numbers the query strings of the listing denote.
WholeNumbers ==
    [str \in {"0", "1", "2", "50", "100", "101", "150"} |->
        CASE str = "0" -> 0 [] str = "1" -> 1 [] str = "2" -> 2
          [] str = "50" -> 50 [] str = "100" -> 100 [] str = "101" -> 101
          [] OTHER -> 150]

\* C22: for every limit and offset query value GET /expenses returns at
\* most 100 records; the effective limit is min(limit, 100) when limit is
\* supplied and 50 when it is not, and the offset is 0 when not supplied:
\* an answered listing holds the rows from the offset on, up to the
\* effective limit, and never more than 100.
C22_AtMostHundred ==
    (listing.resp.status # 0) =>
        LET data == listing.resp.data
            limit == IF listing.limit = "" THEN 50
                     ELSE IF WholeNumbers[listing.limit] < 100
                     THEN WholeNumbers[listing.limit] ELSE 100
            offset == IF listing.offset = "" THEN 0
                      ELSE WholeNumbers[listing.offset]
        IN  /\ Len(data) <= 100
            /\ (/\ listing.limit \in {""} \cup DOMAIN WholeNumbers
                /\ listing.offset \in {""} \cup DOMAIN WholeNumbers)
                 => /\ listing.resp.status = 200
                    /\ Len(data) = Max(0, Min(listing.rows - offset, limit))
                    /\ \A i \in 1..Len(data) : data[i] = offset + i

\* C22 witness: 102 rows match and the query asks for 150 of them from
\* offset 1 on; the answer holds the 100 rows 2..101.
C22_Witness ==
    /\ listing.rows = 102
    /\ listing.limit = "150"
    /\ listing.offset = "1"
    /\ listing.resp.status = 200
    /\ Len(listing.resp.data) = 100
    /\ listing.resp.data[1] = 2
    /\ listing.resp.data[100] = 101

\* C22 witness of the defaults: 102 rows match, neither limit nor offset is
\* supplied, and the answer holds the first 50.
C22_DefaultsWitness ==
    /\ listing.rows = 102
    /\ listing.limit = ""
    /\ listing.offset = ""
    /\ Len(listing.resp.data) = 50

\* The user's expenses of one category dated within [startDate, endDate].
SpendingOf(userId, categoryId, startDate, endDate) ==
    {e \in expenses : /\ e.userId = userId
                      /\ e.categoryId = categoryId
                      /\ startDate <= e.date
                      /\ e.date <= endDate}

\* C23: getCategorySpending returns, for a user and window, exactly one row
\* per category that has at least one of that user's expenses dated within
\* the inclusive window, whose total and count equal the sum and number of
\* those expenses; categories with no matching expense do not appear.
C23_CategorySpending ==
    \A userId \in UserIds, startDate \in WindowDates, endDate \in WindowDates :
        LET result == getCategorySpending(userId, startDate, endDate)
        IN  /\ \A row \in result : row.categoryId \in 1..(nextId.categories - 1)
            /\ \A categoryId \in 1..(nextId.categories - 1) :
                 LET own == SpendingOf(userId, categoryId, startDate, endDate)
                     found == {row \in result : row.categoryId = categoryId}
                 IN IF own = {} THEN found = {}
                    ELSE /\ Cardinality(found) = 1
                         /\ \A row \in found :
                              /\ row.count = Cardinality(own)
                              /\ row.total =
                                   TotalUpTo(own, nextId.expenses - 1, userId,
                                             startDate, endDate).total

\* C23 witness: a user holds two expenses of one category, one dated on
\* the 1st and one on the 5th; the spending of the window 1..5 is one row
\* counting both, and that of the window 3..5 one row counting the later one.
C23_Witness ==
    \E e1, e2 \in expenses :
        /\ e1.userId = e2.userId
        /\ e1.categoryId = e2.categoryId
        /\ e1.date = 1
        /\ e2.date = 5
        /\ \E row \in getCategorySpending(e1.userId, 1, 5) :
              /\ getCategorySpending(e1.userId, 1, 5) = {row}
              /\ row.count = 2
              /\ row.total = e1.amount + e2.amount
        /\ \E row \in getCategorySpending(e1.userId, 3, 5) :
              /\ getCategorySpending(e1.userId, 3, 5) = {row}
              /\ row.count = 1
              /\ row.total = e2.amount

\* C24 (the claim as stated): in every reachable state every expense
\* record references a category of type 'expense' and every income record
\* references a category of type 'income'.
C24_CategoryTypeMatches ==
    /\ \A e \in expenses : \A c \in CategoryById(e.categoryId) : c.type = "expense"
    /\ \A i \in income : \A c \in CategoryById(i.categoryId) : c.type = "income"

\* C29 (the claim as stated): in every reachable state the category
\* referenced by an expense is owned by the same user as the expense.
C29_CategoryOwnedByExpenseOwner ==
    \A e \in expenses : \A c \in CategoryById(e.categoryId) : c.userId = e.userId

\* C25: GET /auth/me is answered 401 when no identity was resolved, 404
\* when the token's user has been deleted since the token was issued (the
\* token itself still verifies), and otherwise 200 with the user identified
\* by the token and no other user.
C25_MeAnswers ==
    \A authHeader \in AuthHeaders :
        LET ctx == AuthMiddlewareContext(authHeader)
            resp == MeResponse(authHeader)
        IN  /\ (ctx.userId = 0) => resp.status = 401
            /\ (ctx.userId # 0 /\ \A u \in users : u.id # ctx.userId)
                  => resp.status = 404 /\ resp.data = NoData
            /\ \A u \in users :
                  (u.id = ctx.userId) =>
                      /\ resp.status = 200
                      /\ resp.data.user.id = u.id
                      /\ resp.data.user.email = u.email
                      /\ resp.data.user.name = u.name
                      /\ \A other \in users :
                            (other.id # u.id) => resp.data.user.email # other.email

\* C25 witness: user 1 registered and was deleted, user 2 is stored; the
\* token issued to user 1 still verifies and is answered 404, the token of
\* user 2 is answered 200 with user 2, and a request without a header 401.
C25_Witness ==
    \E gone \in UserIds, u \in users :
        /\ gone < nextId.users
        /\ UserById(gone) = {}
        /\ Bearer(generateToken(gone)) \in AuthHeaders
        /\ verifyToken(generateToken(gone)) = gone
        /\ MeResponse(Bearer(generateToken(gone))).status = 404
        /\ MeResponse(Bearer(generateToken(u.id))).status = 200
        /\ MeResponse(Bearer(generateToken(u.id))).data.user.id = u.id
        /\ MeResponse(NoHeader).status = 401

\* A date the body holds that does not parse.
DateInvalid(str) == str # "" /\ str \notin {"2024-01-01", "2024-01-05"}

\* C27 (the claim as stated): a PUT /expenses/:id by the owner whose body
\* holds an amount that is non-numeric or <= 0, or a date that does not
\* parse, is answered 400 and changes no field of the record, whatever
\* other fields the body holds.
C27_InvalidPutRejected ==
    \A e \in expenses :
        \A authHeader \in AuthHeaders :
            (AuthMiddleware(authHeader) = e.userId) =>
                \A body \in ExpenseBodies :
                    (\/ (body.amount # Undefined /\ AmountInvalid(body.amount))
                     \/ DateInvalid(body.date))
                    => /\ ExpenseIdHandler("PUT", e.id, authHeader, 0, body)
                              .resp.status = 400
                       /\ ExpenseIdHandler("PUT", e.id, authHeader, 0, body)
                              .expenses = expenses

----------------------------------------------------------------------------
\* The register handler step by step: requests in flight interleave at
\* each await, between the lookup of the email and the insert.

MaxRequests == 2

RegisterRaceBodies ==
    [email : EmailInputs, password : {PasswordGood, PasswordShort},
     name : {<<"A", "n", "n">>}]

InitRegister ==
    /\ users = {}
    /\ categories = {}
    /\ income = {}
    /\ expenses = {}
    /\ balances = {}
    /\ nextId = [users |-> 1, categories |-> 1, income |-> 1, expenses |-> 1,
                 balances |-> 1]
    /\ ops = 0
    /\ listing = NoListing
    /\ requests = <<>>
    /\ connection = 0
    /\ db = 0
    /\ sockets = {}
    /\ calls = <<>>

\* The request arrives: readBody and the checks of the fields, up to the
\* await of the lookup. existingUser is -1 until the lookup has run.
RegisterArrives ==
    \E body \in RegisterRaceBodies :
        /\ Len(requests) < MaxRequests
        /\ requests' = Append(requests,
              IF body.email = <<>> \/ body.password = <<>> \/ body.name = <<>>
                 \/ ~EmailRegexTest(body.email) \/ Len(body.password) < 6
              THEN [pc |-> "done", body |-> body, existingUser |-> -1,
                    status |-> 400]
              ELSE [pc |-> "lookup", body |-> body, existingUser |-> -1,
                    status |-> 0])
        /\ UNCHANGED <<store, listing, connection, db, sockets, calls>>

\* select ... from users where email = :email limit 1, and the 409.
RegisterLookup ==
    \E i \in 1..Len(requests) :
        /\ requests[i].pc = "lookup"
        /\ requests' = [requests EXCEPT ![i] =
              IF UserByEmail(requests[i].body.email) # {}
              THEN [@ EXCEPT !.pc = "done", !.existingUser = 1, !.status = 409]
              ELSE [@ EXCEPT !.pc = "insert", !.existingUser = 0]]
        /\ UNCHANGED <<store, listing, connection, db, sockets, calls>>

\* hashPassword, then the insert inside the try: the row and the 200, or
\* the unique key's error and the catch's 500.
RegisterInsert ==
    \E i \in 1..Len(requests) :
        /\ requests[i].pc = "insert"
        /\ IF UsersInsertFails(requests[i].body.email)
           THEN /\ requests' = [requests EXCEPT ![i] =
                       [@ EXCEPT !.pc = "done", !.status = 500]]
                /\ UNCHANGED store
           ELSE /\ nextId.users <= MaxUsers
                /\ requests' = [requests EXCEPT ![i] =
                       [@ EXCEPT !.pc = "done", !.status = 200]]
                /\ users' = users \cup
                       {UsersInsertRow(requests[i].body.email,
                                       requests[i].body.name,
                                       hashPassword(requests[i].body.password))}
                /\ nextId' = [nextId EXCEPT !.users = nextId.users + 1]
                /\ ops' = ops + 1
                /\ UNCHANGED <<categories, income, expenses, balances>>
        /\ UNCHANGED <<listing, connection, db, sockets, calls>>

NextRegister == RegisterArrives \/ RegisterLookup \/ RegisterInsert

SpecRegister == InitRegister /\ [][NextRegister]_vars

\* C26 (the claim as stated): when two register requests carrying the same
\* email both performed the lookup before either inserted, exactly one user
\* row is created and the losing request is answered 409.
C26_RaceLoserGetsConflict ==
    \A i, j \in 1..Len(requests) :
        (/\ i # j
         /\ requests[i].body.email = requests[j].body.email
         /\ requests[i].existingUser = 0
         /\ requests[j].existingUser = 0
         /\ requests[i].pc = "done"
         /\ requests[j].pc = "done")
        => /\ Cardinality(UserByEmail(requests[i].body.email)) = 1
           /\ {requests[i].status, requests[j].status} = {200, 409}

\* What the code does in that interleaving: one row, and the loser is
\* answered with the catch's 500.
C26_RaceLoserGetsFailure ==
    \A i, j \in 1..Len(requests) :
        (/\ i # j
         /\ requests[i].body.email = requests[j].body.email
         /\ requests[i].existingUser = 0
         /\ requests[j].existingUser = 0
         /\ requests[i].pc = "done"
         /\ requests[j].pc = "done")
        => /\ Cardinality(UserByEmail(requests[i].body.email)) = 1
           /\ {requests[i].status, requests[j].status} = {200, 500}

----------------------------------------------------------------------------
\* PUT /expenses/:id step by step: the select of the caller's record, the
\* update and the re-read are three queries, and other requests run between
\* them.

PutRaceBodies ==
    [present : {TRUE}, categoryId : {0, MaxCategories + 1},
     amount : {Undefined, JsNum(2000)}, description : {NoField, "lunch"},
     date : {""}]

\* The body of the POST requests that run in between.
PostRaceBody ==
    [present |-> TRUE, categoryId |-> 1, amount |-> JsNum(1000),
     description |-> NoField, date |-> "2024-01-01"]

\* Writes before the first request: two registrations and a category.
WritesBefore == 3

\* Users 1 and 2 are registered and user 1 holds category 1.
InitPut ==
    /\ users = {[id |-> u, email |-> IF u = 1 THEN EmailA ELSE EmailB,
                 name |-> <<"A", "n", "n">>,
                 password |-> hashPassword(PasswordGood)] : u \in 1..2}
    /\ categories = {[id |-> 1, type |-> "expense", userId |-> 1]}
    /\ income = {}
    /\ expenses = {}
    /\ balances = {}
    /\ nextId = [users |-> 3, categories |-> 2, income |-> 1, expenses |-> 1,
                 balances |-> 1]
    /\ ops = WritesBefore
    /\ listing = NoListing
    /\ requests = <<>>
    /\ connection = 0
    /\ db = 0
    /\ sockets = {}
    /\ calls = <<>>

\* The re-read selecting without a condition.
UpdatedRecordAnyRow(id) == expenses

\* select ... from expenses where id = :id limit 1
UpdatedRecord(id) == {e \in expenses : e.id = id}

\* A PUT with a valid id of a caller whose identity resolved to userId.
PutArrives ==
    \E id \in 1..MaxExpenses, userId \in 1..2, body \in PutRaceBodies :
        /\ Len(requests) < MaxRequests
        /\ requests' = Append(requests,
              [pc |-> "select", id |-> id, userId |-> userId, body |-> body,
               status |-> 0, data |-> NoData])
        /\ UNCHANGED <<store, listing, connection, db, sockets, calls>>

\* The select of existingRecord, readBody and the checks of the body, up
\* to the await of the update.
PutSelect ==
    \E i \in 1..Len(requests) :
        LET r == requests[i] IN
        /\ r.pc = "select"
        /\ requests' = [requests EXCEPT ![i] =
              IF ExistingRecord(r.id, r.userId) = {}
              THEN [@ EXCEPT !.pc = "done", !.status = 404]
              ELSE IF \/ (r.body.amount # Undefined
                            /\ AmountRejected(Number(r.body.amount)))
                      \/ (r.body.date # "" /\ ParseDate(r.body.date) = 0)
              THEN [@ EXCEPT !.pc = "done", !.status = 400]
              ELSE IF UpdateDataKeys(r.body) = {}
              THEN [@ EXCEPT !.pc = "done", !.status = 200,
                             !.data = <<CHOOSE e \in ExistingRecord(r.id, r.userId) :
                                           TRUE>>]
              ELSE [@ EXCEPT !.pc = "update"]]
        /\ UNCHANGED <<store, listing, connection, db, sockets, calls>>

\* update expenses set ... where id = :id and user_id = :userId, or the
\* statement's error and the catch.
PutUpdate ==
    \E i \in 1..Len(requests) :
        LET r == requests[i] IN
        /\ r.pc = "update"
        /\ IF r.body.amount # Undefined /\ AmountStoreFails(Number(r.body.amount))
           THEN /\ requests' = [requests EXCEPT ![i] =
                       [@ EXCEPT !.pc = "done", !.status = 500]]
                /\ UNCHANGED store
           ELSE IF UpdateFkFails(r.body) /\ ExistingRecord(r.id, r.userId) # {}
           THEN /\ requests' = [requests EXCEPT ![i] =
                       [@ EXCEPT !.pc = "done", !.status = 400]]
                /\ UNCHANGED store
           ELSE /\ requests' = [requests EXCEPT ![i] = [@ EXCEPT !.pc = "reread"]]
                /\ expenses' = UpdateExpenses(r.id, r.userId, r.body)
                /\ IF expenses' # expenses
                   THEN ops < WritesBefore + MaxOps /\ ops' = ops + 1
                   ELSE ops' = ops
                /\ UNCHANGED <<users, categories, income, balances, nextId>>
        /\ UNCHANGED <<listing, connection, db, sockets, calls>>

\* The re-read by id alone and the response; without a row the read of
\* updatedRecord[0].amount throws and the catch answers 500.
PutReread ==
    \E i \in 1..Len(requests) :
        LET r == requests[i] IN
        /\ r.pc = "reread"
        /\ IF UpdatedRecord(r.id) = {}
           THEN requests' = [requests EXCEPT ![i] =
                    [@ EXCEPT !.pc = "done", !.status = 500]]
           ELSE \E e \in UpdatedRecord(r.id) :
                    requests' = [requests EXCEPT ![i] =
                        [@ EXCEPT !.pc = "done", !.status = 200, !.data = <<e>>]]
        /\ UNCHANGED <<store, listing, connection, db, sockets, calls>>

\* A POST /expenses of either user, between the steps of the PUTs.
PostBetween ==
    \E userId \in 1..2 :
        LET r == PostExpensesHandler(Bearer(generateToken(userId)), PostRaceBody) IN
        /\ r.resp.status = 201
        /\ nextId.expenses <= MaxExpenses
        /\ ops < WritesBefore + MaxOps
        /\ expenses' = r.expenses
        /\ nextId' = [nextId EXCEPT !.expenses = nextId.expenses + 1]
        /\ ops' = ops + 1
        /\ UNCHANGED <<users, categories, income, balances, others>>

\* A DELETE /expenses/:id of either user, between the steps of the PUTs.
DeleteBetween ==
    \E id \in 1..MaxExpenses, userId \in 1..2 :
        LET r == ExpenseIdHandler("DELETE", id, Bearer(generateToken(userId)), 0,
                                  NoBody) IN
        /\ r.resp.status = 200
        /\ ops < WritesBefore + MaxOps
        /\ expenses' = r.expenses
        /\ ops' = ops + 1
        /\ UNCHANGED <<users, categories, income, balances, nextId, others>>

NextPut ==
    \/ PutArrives
    \/ PutSelect
    \/ PutUpdate
    \/ PutReread
    \/ PostBetween
    \/ DeleteBetween

SpecPut == InitPut /\ [][NextPut]_vars

\* C28: under any interleaving of a PUT /expenses/:id by caller B with
\* other users' and B's own create, update and delete requests, a
\* successful PUT response never carries a record whose userId differs from
\* B, although the re-read selects by id alone; no step changes the userId
\* of a stored expense, and an id once handed out is never given to a new
\* row.
C28_PutAnswersOwnRecord ==
    /\ [](\A i \in 1..Len(requests) :
             (requests[i].pc = "done" /\ requests[i].status = 200)
             => /\ Len(requests[i].data) = 1
                /\ requests[i].data[1].userId = requests[i].userId
                /\ requests[i].data[1].id = requests[i].id)
    /\ [][/\ \A e \in expenses, f \in expenses' :
               (e.id = f.id) => e.userId = f.userId
          /\ \A f \in expenses' :
               (\A e \in expenses : e.id # f.id) => f.id >= nextId.expenses
          /\ nextId'.expenses >= nextId.expenses
          /\ \A f \in expenses' : f.id < nextId'.expenses]_vars

\* C28 witness: two PUTs of one user on one expense, one setting the
\* description and one the amount, both ran their update before either ran
\* its re-read: both are answered 200 with the same record of that user,
\* which holds both changes, while the other user holds an expense too.
C28_Witness ==
    \E i, j \in 1..Len(requests) :
        /\ i # j
        /\ requests[i].pc = "done" /\ requests[j].pc = "done"
        /\ requests[i].status = 200 /\ requests[j].status = 200
        /\ requests[i].id = requests[j].id
        /\ requests[i].userId = requests[j].userId
        /\ UpdateDataKeys(requests[i].body) = {"description"}
        /\ UpdateDataKeys(requests[j].body) = {"amount"}
        /\ requests[i].data = requests[j].data
        /\ requests[i].data[1].description = "lunch"
        /\ requests[i].data[1].amount = DecimalRound(2000)
        /\ requests[i].data[1].userId = requests[i].userId
        /\ \E e \in expenses : e.userId # requests[i].userId

----------------------------------------------------------------------------
\* server/db/index.ts: getDb and closeDb step by step.  connection and db
\* are the module's two variables (0 is undefined, otherwise the socket the
\* connection holds and the client wraps), sockets the connections open at
\* the server, calls the calls made so far, each suspended at its await or
\* done.

MaxCalls == 3

\* process.env.DATABASE_URL as a call may find it.
DatabaseUrls == {"", "mysql://db"}

InitDb ==
    /\ users = {}
    /\ categories = {}
    /\ income = {}
    /\ expenses = {}
    /\ balances = {}
    /\ nextId = [users |-> 1, categories |-> 1, income |-> 1, expenses |-> 1,
                 balances |-> 1]
    /\ ops = 0
    /\ listing = NoListing
    /\ requests = <<>>
    /\ connection = 0
    /\ db = 0
    /\ sockets = {}
    /\ calls = <<>>

\* The socket the next mysql.createConnection opens.
NewSocket == 1 + Cardinality({i \in 1..Len(calls) : calls[i].opened # 0})

\* getDb up to its await: the cached client, the throw, or the call of
\* mysql.createConnection.
GetDbCalled ==
    \E databaseUrl \in DatabaseUrls :
        /\ Len(calls) < MaxCalls
        /\ calls' = Append(calls,
              IF db # 0
              THEN [op |-> "getDb", pc |-> "returned", opened |-> 0,
                    result |-> db]
              ELSE IF databaseUrl = ""
              THEN [op |-> "getDb", pc |-> "threw", opened |-> 0, result |-> 0]
              ELSE [op |-> "getDb", pc |-> "createConnection", opened |-> 0,
                    result |-> 0])
        /\ UNCHANGED <<store, listing, requests, connection, db, sockets>>

\* The connection is established and getDb resumes: connection and db
\* are assigned and db is returned.
GetDbResumes ==
    \E i \in 1..Len(calls) :
        /\ calls[i].pc = "createConnection"
        /\ sockets' = sockets \cup {NewSocket}
        /\ connection' = NewSocket
        /\ db' = NewSocket
        /\ calls' = [calls EXCEPT ![i] =
              [@ EXCEPT !.pc = "returned", !.opened = NewSocket,
                        !.result = NewSocket]]
        /\ UNCHANGED <<store, listing, requests>>

\* closeDb up to its await: connection.end() on the connection cached at
\* the time of the call, or nothing to do.
CloseDbCalled ==
    /\ Len(calls) < MaxCalls
    /\ calls' = Append(calls,
          IF connection # 0
          THEN [op |-> "closeDb", pc |-> "end", opened |-> 0,
                result |-> connection]
          ELSE [op |-> "closeDb", pc |-> "returned", opened |-> 0, result |-> 0])
    /\ UNCHANGED <<store, listing, requests, connection, db, sockets>>

\* The connection has ended and closeDb resumes: both variables are reset.
CloseDbResumes ==
    \E i \in 1..Len(calls) :
        /\ calls[i].op = "closeDb"
        /\ calls[i].pc = "end"
        /\ sockets' = sockets \ {calls[i].result}
        /\ connection' = 0
        /\ db' = 0
        /\ calls' = [calls EXCEPT ![i] = [@ EXCEPT !.pc = "returned"]]
        /\ UNCHANGED <<store, listing, requests>>

NextDb == GetDbCalled \/ GetDbResumes \/ CloseDbCalled \/ CloseDbResumes

SpecDb == InitDb /\ [][NextDb]_vars

\* C30 (the claim as stated): at most one storage connection is open at
\* any time, and the getDb calls made with no closeDb among the calls,
\* concurrent or not, return the same client; a getDb call that threw
\* opened nothing.
C30_AtMostOneConnection ==
    /\ Cardinality(sockets) <= 1
    /\ (\A k \in 1..Len(calls) : calls[k].op = "getDb") =>
          \A i, j \in 1..Len(calls) :
              (calls[i].pc = "returned" /\ calls[j].pc = "returned")
              => calls[i].result = calls[j].result
    /\ \A i \in 1..Len(calls) : (calls[i].pc = "threw") => calls[i].opened = 0

\* The parts of C30 that hold: a getDb that returns hands out
\* a client, a getDb that finds DATABASE_URL undefined opens and caches
\* nothing, and the cached client is the one of the cached connection.
C30_SequentialParts ==
    /\ \A i \in 1..Len(calls) :
          (calls[i].pc = "threw") => calls[i].opened = 0 /\ calls[i].result = 0
    /\ (db # 0) => /\ db = connection
                   /\ \E i \in 1..Len(calls) : calls[i].opened = db
    /\ \A i \in 1..Len(calls) :
          (calls[i].op = "getDb" /\ calls[i].pc = "returned")
          => calls[i].result # 0

====
